---- MODULE Spec2Model ----
(***************************************************************************)
(* Model of the mail ingestion backend: the account worker of              *)
(* services/imapManager.ts (registry, connect / enumerate / listen state   *)
(* machine, reconnect backoff, stop), the message identity resolver        *)
(* (extractMessageId) and the index gateway of lib/esClient.ts (docIdFor,  *)
(* docExists, indexEmail).                                                 *)
(*                                                                         *)
(* Strings are sequences of character codes (ASCII).  The mail client and  *)
(* the index client are the environment: every awaited call of theirs is   *)
(* one action per outcome (resolve / reject).  JavaScript runs a callback  *)
(* to its next await without interleaving, so one action is the code from  *)
(* one await to the next.                                                  *)
(***************************************************************************)
EXTENDS Integers, Sequences, FiniteSets, TLC

(***************************************************************************)
(* Characters and strings                                                  *)
(***************************************************************************)
\* JavaScript \s restricted to ASCII: TAB LF VT FF CR SPACE
IsSpace(c) == c \in {9, 10, 11, 12, 13, 32}

\* JavaScript LineTerminator restricted to ASCII: LF CR ("." does not match them)
IsLineTerminator(c) == c \in {10, 13}

\* ASCII lower-casing, for the regular expression's i flag
Lower(c) == IF c >= 65 /\ c <= 90 THEN c + 32 ELSE c

\* "Message-ID:" (the second pattern, "Message-Id:", equals it under the i flag)
HeaderName == <<77, 101, 115, 115, 97, 103, 101, 45, 73, 68, 58>>

HeaderNameAlt == <<77, 101, 115, 115, 97, 103, 101, 45, 73, 100, 58>>

\* number of consecutive characters of t from position p on that satisfy \s
RECURSIVE SpaceRun(_, _)
SpaceRun(t, p) ==
    IF p <= Len(t) /\ IsSpace(t[p]) THEN 1 + SpaceRun(t, p + 1) ELSE 0

\* number of consecutive characters of t from position p on that "." matches
RECURSIVE DotRun(_, _)
DotRun(t, p) ==
    IF p <= Len(t) /\ ~IsLineTerminator(t[p]) THEN 1 + DotRun(t, p + 1) ELSE 0

\* the literal h (case-insensitive) stands in t at position p
LiteralAt(t, p, h) ==
    /\ p >= 1
    /\ p + Len(h) - 1 <= Len(t)
    /\ \A i \in 1..Len(h) : Lower(t[p + i - 1]) = Lower(h[i])

\* "^" under the m flag: start of input or just after a line terminator
AtLineStart(t, p) == p = 1 \/ (p >= 2 /\ p - 1 <= Len(t) /\ IsLineTerminator(t[p - 1]))

SetMax(S) == CHOOSE x \in S : \A y \in S : y <= x

SetMin(S) == CHOOSE x \in S : \A y \in S : x <= y

NoMatch == <<-1>>

\* /^\s*<h>\s*(.+)$/im tried at start position s: the capture group, or NoMatch.
\* Backtracking order: both \s* are greedy, (.+) is greedy and must end where
\* "$" holds (end of input or before a line terminator), so it always runs to
\* the end of its line.
MatchAt(t, s, h) ==
    LET J == {j \in 0..SpaceRun(t, s) : LiteralAt(t, s + j, h)}
    IN  IF ~AtLineStart(t, s) \/ J = {} THEN NoMatch
        ELSE LET p == s + SetMax(J) + Len(h)
                 K == {k \in 0..SpaceRun(t, p) : DotRun(t, p + k) >= 1}
             IN  IF K = {} THEN NoMatch
                 ELSE LET q == p + SetMax(K)
                      IN  SubSeq(t, q, q + DotRun(t, q) - 1)

\* String.prototype.match without the g flag: the leftmost start that matches
RegexMatch(t, h) ==
    LET S == {s \in 1..(Len(t) + 1) : MatchAt(t, s, h) # NoMatch}
    IN  IF S = {} THEN NoMatch ELSE MatchAt(t, SetMin(S), h)

\* String.prototype.trim
RECURSIVE TrimStart(_)
TrimStart(s) ==
    IF Len(s) > 0 /\ IsSpace(s[1]) THEN TrimStart(Tail(s)) ELSE s

RECURSIVE TrimEnd(_)
TrimEnd(s) ==
    IF Len(s) > 0 /\ IsSpace(s[Len(s)]) THEN TrimEnd(SubSeq(s, 1, Len(s) - 1)) ELSE s

Trim(s) == TrimEnd(TrimStart(s))

\* decimal digit of a one-digit number
Digit(n) == 48 + n

\* `<generated-${Date.now()}-${Math.random()}>` with clock reading now and
\* random fraction 0.rnd
GeneratedId(now, rnd) ==
    <<60, 103, 101, 110, 101, 114, 97, 116, 101, 100, 45>>
        \o <<Digit(now), 45, 48, 46, Digit(rnd), 62>>

\* parsed forms: NoParsed is null / undefined; otherwise a record whose
\* messageId is a string (<<>> stands for an absent or empty one: both falsy)
NoParsed == [absent |-> TRUE]

HasMessageId(parsed) ==
    /\ parsed # NoParsed
    /\ parsed.messageId # <<>>

extractMessageId(parsed, rawText, now, rnd) ==
    IF HasMessageId(parsed) THEN parsed.messageId
    ELSE LET m == IF RegexMatch(rawText, HeaderName) # NoMatch
                  THEN RegexMatch(rawText, HeaderName)
                  ELSE RegexMatch(rawText, HeaderNameAlt)
         IN  IF m # NoMatch /\ m # <<>> THEN Trim(m)
             ELSE GeneratedId(now, rnd)

(***************************************************************************)
(* Index gateway: document identity                                        *)
(***************************************************************************)
\* the base64url alphabet: A-Z a-z 0-9 - _
B64Char(v) ==
    IF v < 26 THEN 65 + v
    ELSE IF v < 52 THEN 97 + (v - 26)
    ELSE IF v < 62 THEN 48 + (v - 52)
    ELSE IF v = 62 THEN 45 ELSE 95

\* Buffer.from(messageId).toString('base64url'): three bytes to four digits,
\* no padding
RECURSIVE encodedMessageId(_)
encodedMessageId(b) ==
    IF Len(b) = 0 THEN <<>>
    ELSE IF Len(b) = 1 THEN
        <<B64Char(b[1] \div 4), B64Char((b[1] % 4) * 16)>>
    ELSE IF Len(b) = 2 THEN
        <<B64Char(b[1] \div 4), B64Char((b[1] % 4) * 16 + b[2] \div 16),
          B64Char((b[2] % 16) * 4)>>
    ELSE
        <<B64Char(b[1] \div 4), B64Char((b[1] % 4) * 16 + b[2] \div 16),
          B64Char((b[2] % 16) * 4 + b[3] \div 64), B64Char(b[3] % 64)>>
            \o encodedMessageId(SubSeq(b, 4, Len(b)))

\* `${Date.now()}-${Math.random()}`
Placeholder(now, rnd) == <<Digit(now), 45, 48, 46, Digit(rnd)>>

docIdFor(accountId, messageId, now, rnd) ==
    LET enc == encodedMessageId(IF messageId # <<>> THEN messageId
                                ELSE Placeholder(now, rnd))
    IN  <<Digit(accountId), 95>> \o enc

(***************************************************************************)
(* Bounds of the model and the environment's data                          *)
(***************************************************************************)
\* Worker objects ever constructed (registry scenario)
MaxWorkers == 2

\* cap of a worker's reconnectAttempts (2^5 * 1000 exceeds the 30 s ceiling)
MaxAttempts == 5

\* successful connects of one worker (each one attaches handlers again)
MaxCycles == 2

\* connectAndListen invocations of one worker that are active at once
MaxRuns == 2

\* setTimeout callbacks of one worker that are pending at once
MaxTimers == 2

\* stopWorkerForAccount calls that await logout at once
MaxStops == 2

\* readings of Date.now() and of Math.random()
MaxNow == 2

MaxRnd == 2

\* "Message-ID: <1@x>" and "Message-Id: <2@x>"
MsgA == HeaderName \o <<32, 60, 49, 64, 120, 62>>

MsgB == HeaderNameAlt \o <<32, 60, 50, 64, 120, 62>>

\* what listMailboxes resolves to: a tree whose root has no name
Boxes ==
    [name |-> "", children |->
        << [name |-> "INBOX", children |->
              << [name |-> "INBOX/Old", children |-> <<>>] >>] >>]

\* a server that lists no mailbox
NoBoxes == [name |-> "", children |-> <<>>]

\* the messages of the last 30 days the server holds in a mailbox, in the
\* order search and fetch return them
MailboxContent(m) ==
    IF m = "INBOX" THEN <<MsgA, MsgB>>
    ELSE IF m = "INBOX/Old" THEN <<MsgA>>
    ELSE <<>>

\* The deployments explored.  Each fixes the accounts of the control plane,
\* the server's mailbox tree and the caps of the counters; the state spaces
\* add up instead of multiplying.
\*   registry: two accounts, several Worker objects, overlapping stops,
\*             a server that lists no mailbox and a connection that holds
\*   backoff:  one worker, long failure chains, concurrent invocations
\*   backfill: one worker, mailboxes with mail, repeated backfill
Scenarios ==
    { [name |-> "registry", accounts |-> {1, 2}, boxes |-> NoBoxes,
       maxWorkers |-> MaxWorkers, maxStops |-> MaxStops, maxAttempts |-> 0,
       maxCycles |-> 1, maxRuns |-> 1, maxTimers |-> 1],
      [name |-> "backoff", accounts |-> {1}, boxes |-> NoBoxes,
       maxWorkers |-> 1, maxStops |-> 1, maxAttempts |-> MaxAttempts,
       maxCycles |-> MaxCycles, maxRuns |-> MaxRuns, maxTimers |-> MaxTimers],
      [name |-> "backfill", accounts |-> {1}, boxes |-> Boxes,
       maxWorkers |-> 1, maxStops |-> 1, maxAttempts |-> 1,
       maxCycles |-> MaxCycles, maxRuns |-> 1, maxTimers |-> 1] }

(***************************************************************************)
(* State                                                                   *)
(***************************************************************************)
VARIABLES
    workers,    \* the registry Map: a set of entries <<account id, worker>>
    created,    \* number of Worker objects constructed so far
    worker,     \* worker -> [account, connected, reconnectAttempts, shuttingDown]
    up,         \* worker -> the client's connection is established
    selected,   \* worker -> the mailbox selected on the connection ("" none)
    runs,       \* worker -> the active connectAndListen invocations
    timers,     \* worker -> delays of the pending setTimeout callbacks
    handlers,   \* worker -> listeners attached to the client
    stops,      \* stopWorkerForAccount calls awaiting client.logout()
    index,      \* the index: document id -> document
    failures,   \* worker -> connection failures since the last successful connect
    ev,         \* what the last step reported (return of a call, logged error)
    cfg,        \* the deployment explored (never changes)
    inp,        \* resolver / gateway harness: the input drawn
    out,        \* resolver / gateway harness: results so far
    lives       \* callbacks of 'exists' listeners that are under way

vars == <<workers, created, worker, up, selected, runs, timers, handlers,
          stops, index, failures, ev, cfg, inp, out, lives>>

workerVars == <<workers, created, worker, up, selected, runs, timers,
                handlers, stops, failures>>

W == 1..created

NoEv == [op |-> "none"]

(***************************************************************************)
(* The registry Map                                                        *)
(***************************************************************************)
MapHas(m, k) == \E e \in m : e[1] = k

MapGet(m, k) == (CHOOSE e \in m : e[1] = k)[2]

MapSet(m, k, v) == {e \in m : e[1] # k} \cup {<<k, v>>}

MapDelete(m, k) == {e \in m : e[1] # k}

(***************************************************************************)
(* Sequences                                                               *)
(***************************************************************************)
RemoveAt(s, i) == SubSeq(s, 1, i - 1) \o SubSeq(s, i + 1, Len(s))

Min(a, b) == IF a <= b THEN a ELSE b

RECURSIVE Pow2(_)
Pow2(n) == IF n = 0 THEN 1 ELSE 2 * Pow2(n - 1)

(***************************************************************************)
(* retryConnect and connectAndListen's entry                               *)
(***************************************************************************)
\* the delay retryConnect computes from the incremented counter
Delay(attempts) == Min(30000, 1000 * Pow2(attempts))

\* retryConnect without its shuttingDown check
retryConnect_Unguarded(st) ==
    LET n == st.w.reconnectAttempts + 1
    IN  [w |-> [st.w EXCEPT !.reconnectAttempts = n],
         t |-> Append(st.t, Delay(n))]

\* retryConnect on st = [w |-> the Worker record, t |-> its pending timers]
retryConnect(st) ==
    IF st.w.shuttingDown THEN st
    ELSE LET n == st.w.reconnectAttempts + 1
         IN  [w |-> [st.w EXCEPT !.reconnectAttempts = n],
              t |-> Append(st.t, Delay(n))]

\* a close or end handler that only clears connected
OnConnectionGone_NoRetry(st) == [st EXCEPT !.w.connected = FALSE]

\* a close or end handler on st: clears connected, retries unless shutting down
OnConnectionGone(st) ==
    LET st1 == [st EXCEPT !.w.connected = FALSE]
    IN  IF ~st1.w.shuttingDown THEN retryConnect(st1) ELSE st1

\* n handlers run one after the other
RECURSIVE RunHandlers(_, _)
RunHandlers(st, n) ==
    IF n = 0 THEN st ELSE RunHandlers(OnConnectionGone(st), n - 1)

\* a new invocation of connectAndListen awaiting client.connect()
NewRun == [pc |-> "connect", mi |-> 0, k |-> 0, doc |-> <<>>, failed |-> FALSE]

\* connectAndListen() called on a worker whose active invocations are rs: it
\* returns at once when the worker is shutting down, else it calls connect
connectAndListen(wk, rs) ==
    IF wk.shuttingDown THEN rs ELSE Append(rs, NewRun)

\* the flat list of mailbox names: pre-order, nodes without a name skipped
RECURSIVE recurse(_)
RECURSIVE RecurseAll(_)
recurse(box) ==
    (IF box.name # "" THEN <<box.name>> ELSE <<>>) \o RecurseAll(box.children)

RecurseAll(cs) ==
    IF cs = <<>> THEN <<>> ELSE recurse(Head(cs)) \o RecurseAll(Tail(cs))

mailboxNames == recurse(cfg.boxes)

\* successful connects of w so far that are still visible: the handlers of
\* the cycles that finished plus the invocations that are past connect
Cycles(w) ==
    handlers[w].close + Cardinality({i \in 1..Len(runs[w]) : runs[w][i].pc # "connect"})

TypeOK ==
    /\ cfg \in Scenarios
    /\ created \in 0..cfg.maxWorkers
    /\ workers \subseteq (cfg.accounts \X W)
    /\ DOMAIN worker = W
    /\ \A w \in W : worker[w].reconnectAttempts \in 0..cfg.maxAttempts

InitWorkers ==
    /\ workers = {}
    /\ created = 0
    /\ worker = <<>>
    /\ up = <<>>
    /\ selected = <<>>
    /\ runs = <<>>
    /\ timers = <<>>
    /\ handlers = <<>>
    /\ stops = <<>>
    /\ index = <<>>
    /\ failures = <<>>
    /\ ev = NoEv
    /\ lives = <<>>

Init ==
    /\ InitWorkers
    /\ cfg \in Scenarios
    /\ inp = <<>>
    /\ out = <<>>

(***************************************************************************)
(* startWorkerForAccount                                                   *)
(***************************************************************************)
\* a guard that never finds the account registered
AlreadyRunning_Never(a) == FALSE

\* the guard of startWorkerForAccount: a worker is registered for the id
AlreadyRunning(a) == MapHas(workers, a)

startWorkerForAccount(a) ==
    /\ UNCHANGED <<index, cfg, inp, out, lives>>
    /\ IF AlreadyRunning(a)
       THEN /\ ev' = [op |-> "start", account |-> a, result |-> "already"]
            /\ UNCHANGED workerVars
       ELSE /\ created < cfg.maxWorkers
            /\ LET w == created + 1
                   wk == [account |-> a, connected |-> FALSE,
                          reconnectAttempts |-> 0, shuttingDown |-> FALSE]
               IN  /\ created' = w
                   /\ worker' = Append(worker, wk)
                   /\ workers' = MapSet(workers, a, w)
                   /\ up' = Append(up, FALSE)
                   /\ selected' = Append(selected, "")
                   /\ timers' = Append(timers, <<>>)
                   /\ handlers' = Append(handlers,
                         [error |-> 0, close |-> 0, end |-> 0, exists |-> <<>>])
                   /\ failures' = Append(failures, 0)
                   /\ runs' = Append(runs, connectAndListen(wk, <<>>))
                   /\ ev' = [op |-> "start", account |-> a, result |-> "started"]
                   /\ UNCHANGED stops

(***************************************************************************)
(* stopWorkerForAccount                                                    *)
(***************************************************************************)
\* stopWorkerForAccount without the early return: on an id that is not
\* registered it reads shuttingDown of undefined and raises
stopWorkerForAccount_NoGuard(a) ==
    /\ UNCHANGED <<index, cfg, inp, out, lives>>
    /\ IF ~MapHas(workers, a)
       THEN /\ ev' = [op |-> "stop", account |-> a, result |-> "raised"]
            /\ UNCHANGED workerVars
       ELSE /\ Len(stops) < cfg.maxStops
            /\ LET w == MapGet(workers, a)
               IN  /\ worker' = [worker EXCEPT ![w].shuttingDown = TRUE]
                   /\ stops' = Append(stops, [account |-> a, w |-> w])
            /\ ev' = [op |-> "stop", account |-> a, result |-> "logout"]
            /\ UNCHANGED <<workers, created, up, selected, runs, timers,
                           handlers, failures>>

stopWorkerForAccount(a) ==
    /\ UNCHANGED <<index, cfg, inp, out, lives>>
    /\ IF ~MapHas(workers, a)
       THEN /\ ev' = [op |-> "stop", account |-> a, result |-> "absent"]
            /\ UNCHANGED workerVars
       ELSE /\ Len(stops) < cfg.maxStops
            /\ LET w == MapGet(workers, a)
               IN  /\ worker' = [worker EXCEPT ![w].shuttingDown = TRUE]
                   /\ stops' = Append(stops, [account |-> a, w |-> w])
            /\ ev' = [op |-> "stop", account |-> a, result |-> "logout"]
            /\ UNCHANGED <<workers, created, up, selected, runs, timers,
                           handlers, failures>>

\* stopWorkerForAccount without the try / catch around logout
StopOutcome_Uncaught(ok) ==
    IF ok THEN [deleted |-> TRUE, result |-> "returned"]
    ELSE [deleted |-> FALSE, result |-> "raised"]

\* how stopWorkerForAccount ends when logout resolved (ok) or rejected: the
\* rejection is caught and logged, the entry is deleted either way
StopOutcome(ok) == [deleted |-> TRUE, result |-> "returned"]

\* client.logout() of the j-th pending stop call settles
LogoutDone(j, ok) ==
    /\ j \in 1..Len(stops)
    /\ LET s == stops[j]
           o == StopOutcome(ok)
           st == [w |-> worker[s.w], t |-> timers[s.w]]
           \* a logout that went through ends the connection; the client
           \* reports it to the close handlers attached so far
           st1 == IF ok THEN RunHandlers(st, handlers[s.w].close) ELSE st
       IN  /\ stops' = RemoveAt(stops, j)
           /\ worker' = [worker EXCEPT ![s.w] = st1.w]
           /\ timers' = [timers EXCEPT ![s.w] = st1.t]
           /\ up' = [up EXCEPT ![s.w] = IF ok THEN FALSE ELSE @]
           /\ workers' = IF o.deleted THEN MapDelete(workers, s.account) ELSE workers
           /\ ev' = [op |-> "stopDone", account |-> s.account, result |-> o.result,
                     logout |-> ok]
    /\ UNCHANGED <<created, selected, runs, handlers, failures, index, cfg, inp, out, lives>>

(***************************************************************************)
(* connectAndListen: one action per awaited call and outcome               *)
(***************************************************************************)
Run(w, i) == runs[w][i]

AtPc(w, i, pc) ==
    /\ w \in W
    /\ i \in 1..Len(runs[w])
    /\ runs[w][i].pc = pc

\* the handlers connectAndListen attaches after the enumeration
AttachConnectionHandlers(h) ==
    [h EXCEPT !.error = @ + 1, !.close = @ + 1, !.end = @ + 1]

\* the invocation returns after attaching the connection handlers
FinishRun(w, i) ==
    /\ runs' = [runs EXCEPT ![w] = RemoveAt(@, i)]
    /\ handlers' = [handlers EXCEPT ![w] = AttachConnectionHandlers(@)]

\* fetchLast30DaysForMailbox returned (normally, or after its catch logged):
\* connectAndListen goes on to await client.mailboxOpen(m)
BackfillReturns(w, i) ==
    runs' = [runs EXCEPT ![w][i] = [NewRun EXCEPT !.pc = "subOpen", !.mi = Run(w, i).mi]]

\* fetchLast30DaysForMailbox returned after its catch logged a rejected open,
\* search or fetch: connectAndListen goes on just the same; failed records
\* that the backfill of this mailbox did not go through
BackfillFails(w, i) ==
    runs' = [runs EXCEPT ![w][i] = [NewRun EXCEPT !.pc = "subOpen", !.mi = Run(w, i).mi,
                                                  !.failed = TRUE]]

\* what connectAndListen's catch does with the worker when connect rejected
OnConnectRejected(st) == retryConnect([st EXCEPT !.w.connected = FALSE])

\* await client.connect() settles
ConnectDone(w, i, ok) ==
    /\ AtPc(w, i, "connect")
    /\ IF ok
       THEN /\ Cycles(w) < cfg.maxCycles
            /\ worker' = [worker EXCEPT ![w].connected = TRUE,
                                        ![w].reconnectAttempts = 0]
            /\ failures' = [failures EXCEPT ![w] = 0]
            /\ up' = [up EXCEPT ![w] = TRUE]
            /\ runs' = [runs EXCEPT ![w][i].pc = "list"]
            /\ ev' = NoEv
            /\ UNCHANGED timers
       ELSE /\ failures[w] < cfg.maxAttempts
            /\ worker[w].reconnectAttempts < cfg.maxAttempts
            /\ Len(timers[w]) < cfg.maxTimers
            /\ LET st == OnConnectRejected([w |-> worker[w], t |-> timers[w]])
               IN  /\ worker' = [worker EXCEPT ![w] = st.w]
                   /\ timers' = [timers EXCEPT ![w] = st.t]
            /\ failures' = [failures EXCEPT ![w] = @ + 1]
            /\ runs' = [runs EXCEPT ![w] = RemoveAt(@, i)]
            /\ ev' = [op |-> "error", w |-> w, at |-> "connect"]
            /\ UNCHANGED up
    /\ UNCHANGED <<workers, created, selected, handlers, stops, index, cfg, inp, out, lives>>

\* await client.listMailboxes() settles
ListDone(w, i, ok) ==
    /\ AtPc(w, i, "list")
    /\ IF ok
       THEN /\ IF mailboxNames = <<>>
               THEN FinishRun(w, i)
               ELSE /\ runs' = [runs EXCEPT ![w][i] =
                                   [NewRun EXCEPT !.pc = "bfOpen", !.mi = 1]]
                    /\ UNCHANGED handlers
            /\ ev' = NoEv
       ELSE /\ FinishRun(w, i)
            /\ ev' = [op |-> "error", w |-> w, at |-> "list"]
    /\ UNCHANGED <<workers, created, worker, up, selected, timers, stops,
                   index, failures, cfg, inp, out, lives>>

\* fetchLast30DaysForMailbox: await client.mailboxOpen(mailbox, {readOnly})
BackfillOpenDone(w, i, ok) ==
    /\ AtPc(w, i, "bfOpen")
    /\ IF ok
       THEN /\ selected' = [selected EXCEPT ![w] = mailboxNames[Run(w, i).mi]]
            /\ runs' = [runs EXCEPT ![w][i].pc = "search"]
            /\ ev' = NoEv
       ELSE /\ BackfillFails(w, i)
            /\ ev' = [op |-> "error", w |-> w, at |-> "open"]
            /\ UNCHANGED selected
    /\ UNCHANGED <<workers, created, worker, up, timers, handlers, stops,
                   index, failures, cfg, inp, out, lives>>

\* fetchLast30DaysForMailbox: await client.search({since}) on the selected
\* mailbox; no uid found returns at once
SearchDone(w, i, ok) ==
    /\ AtPc(w, i, "search")
    /\ IF ok
       THEN /\ IF MailboxContent(selected[w]) = <<>>
               THEN BackfillReturns(w, i)
               ELSE runs' = [runs EXCEPT ![w][i].pc = "fetch", ![w][i].k = 1]
            /\ ev' = NoEv
       ELSE /\ BackfillFails(w, i)
            /\ ev' = [op |-> "error", w |-> w, at |-> "search"]
    /\ UNCHANGED <<workers, created, worker, up, selected, timers, handlers,
                   stops, index, failures, cfg, inp, out, lives>>

\* parseRawEmail: the parsed form carries text, html and subject, no messageId
parseRawEmail(raw) == [messageId |-> <<>>, text |-> raw]

\* rawToText of a source buffer of ASCII text
rawToText(raw) == raw

\* the document both pipelines build for a fetched message
BuildDoc(accountId, mailbox, messageId, rawText) ==
    [messageId |-> messageId, accountId |-> accountId, folder |-> mailbox,
     raw |-> rawText]

\* esClient.index({index, id, document}): write or overwrite at id
Upsert(ix, id, doc) ==
    [x \in DOMAIN ix \cup {id} |-> IF x = id THEN doc ELSE ix[x]]

\* a docExists whose catch answers true
docExists_CatchTrue(ix, accountId, messageId, ok, now, rnd) ==
    LET id == docIdFor(accountId, messageId, now, rnd)
    IN  IF ok THEN id \in DOMAIN ix ELSE TRUE

\* docExists on index ix: the answer when esClient.exists resolved (ok, body
\* tells whether a document is stored at the id) or rejected (caught, false)
docExists(ix, accountId, messageId, ok, now, rnd) ==
    LET id == docIdFor(accountId, messageId, now, rnd)
    IN  IF ok THEN id \in DOMAIN ix ELSE FALSE

\* indexEmail on index ix: the index after esClient.index resolved (ok) or
\* rejected (nothing written; the error is thrown on to the caller)
indexEmail(ix, doc, ok, now, rnd) ==
    LET id == docIdFor(doc.accountId, doc.messageId, now, rnd)
    IN  IF ok THEN Upsert(ix, id, doc) ELSE ix

\* fetchLast30DaysForMailbox: the fetch iterator yields its next message (the
\* loop body runs to the call of docExists), ends, or rejects
FetchNext(w, i, ok) ==
    /\ AtPc(w, i, "fetch")
    /\ IF ok
       THEN LET content == MailboxContent(selected[w])
                r == Run(w, i)
            IN  IF r.k <= Len(content)
                THEN \E now \in 1..MaxNow, rnd \in 1..MaxRnd :
                       LET raw == content[r.k]
                           rawText == rawToText(raw)
                           messageId == extractMessageId(parseRawEmail(raw), rawText, now, rnd)
                       IN  /\ runs' = [runs EXCEPT ![w][i].pc = "exists",
                                          ![w][i].doc = BuildDoc(worker[w].account,
                                              mailboxNames[r.mi], messageId, rawText)]
                           /\ ev' = NoEv
                ELSE /\ BackfillReturns(w, i)
                     /\ ev' = NoEv
       ELSE /\ BackfillFails(w, i)
            /\ ev' = [op |-> "error", w |-> w, at |-> "fetch"]
    /\ UNCHANGED <<workers, created, worker, up, selected, timers, handlers,
                   stops, index, failures, cfg, inp, out, lives>>

\* a backfill loop that skips nothing
SkipsMessage_Never(exists) == FALSE

\* the backfill loop's decision on a message: skip it when it exists
SkipsMessage(exists) == exists

\* fetchLast30DaysForMailbox: await docExists(...) settles; a message that is
\* not skipped goes on to indexEmail
DocExistsDone(w, i, ok) ==
    /\ AtPc(w, i, "exists")
    /\ \E now \in 1..MaxNow, rnd \in 1..MaxRnd :
         LET r == Run(w, i)
             exists == docExists(index, r.doc.accountId, r.doc.messageId, ok, now, rnd)
         IN  /\ IF SkipsMessage(exists)
                THEN runs' = [runs EXCEPT ![w][i].pc = "fetch", ![w][i].k = r.k + 1,
                                          ![w][i].doc = <<>>]
                ELSE runs' = [runs EXCEPT ![w][i].pc = "index"]
             /\ ev' = IF ok THEN [op |-> "exists", w |-> w, found |-> exists]
                      ELSE [op |-> "error", w |-> w, at |-> "exists"]
    /\ UNCHANGED <<workers, created, worker, up, selected, timers, handlers,
                   stops, index, failures, cfg, inp, out, lives>>

\* a backfill without the try / catch around indexEmail: the rejection
\* reaches the catch of fetchLast30DaysForMailbox and ends the backfill
IndexEmailDone_Aborts(w, i, ok) ==
    /\ AtPc(w, i, "index")
    /\ \E now \in 1..MaxNow, rnd \in 1..MaxRnd :
         LET r == Run(w, i)
         IN  /\ index' = indexEmail(index, r.doc, ok, now, rnd)
             /\ IF ok
                THEN runs' = [runs EXCEPT ![w][i].pc = "fetch", ![w][i].k = r.k + 1,
                                          ![w][i].doc = <<>>]
                ELSE BackfillFails(w, i)
             /\ ev' = IF ok THEN [op |-> "indexed", w |-> w, doc |-> r.doc]
                      ELSE [op |-> "error", w |-> w, at |-> "index"]
    /\ UNCHANGED <<workers, created, worker, up, selected, timers, handlers,
                   stops, failures, cfg, inp, out, lives>>

\* fetchLast30DaysForMailbox: await indexEmail(doc) settles; a rejection is
\* caught and logged, the loop goes on either way
IndexEmailDone(w, i, ok) ==
    /\ AtPc(w, i, "index")
    /\ \E now \in 1..MaxNow, rnd \in 1..MaxRnd :
         LET r == Run(w, i)
         IN  /\ index' = indexEmail(index, r.doc, ok, now, rnd)
             /\ runs' = [runs EXCEPT ![w][i].pc = "fetch", ![w][i].k = r.k + 1,
                                     ![w][i].doc = <<>>]
             /\ ev' = IF ok THEN [op |-> "indexed", w |-> w, doc |-> r.doc]
                      ELSE [op |-> "error", w |-> w, at |-> "index"]
    /\ UNCHANGED <<workers, created, worker, up, selected, timers, handlers,
                   stops, failures, cfg, inp, out, lives>>

\* connectAndListen: await client.mailboxOpen(m) settles; resolved, the
\* 'exists' listener of m is attached; rejected, the catch warns
SubscribeOpenDone(w, i, ok) ==
    /\ AtPc(w, i, "subOpen")
    /\ LET m == mailboxNames[Run(w, i).mi]
           h == IF ok THEN [handlers[w] EXCEPT !.exists = Append(@, m)]
                ELSE handlers[w]
       IN  /\ selected' = [selected EXCEPT ![w] = IF ok THEN m ELSE @]
           /\ IF Run(w, i).mi < Len(mailboxNames)
              THEN /\ runs' = [runs EXCEPT ![w][i] =
                                  [NewRun EXCEPT !.pc = "bfOpen", !.mi = Run(w, i).mi + 1]]
                   /\ handlers' = [handlers EXCEPT ![w] = h]
              ELSE /\ runs' = [runs EXCEPT ![w] = RemoveAt(@, i)]
                   /\ handlers' = [handlers EXCEPT ![w] = AttachConnectionHandlers(h)]
           /\ ev' = IF ok THEN NoEv ELSE [op |-> "error", w |-> w, at |-> "subscribe"]
    /\ UNCHANGED <<workers, created, worker, up, timers, stops, index,
                   failures, cfg, inp, out, lives>>

(***************************************************************************)
(* Connection events and timers                                            *)
(***************************************************************************)
\* the established connection is lost; the client reports it by the events
\* in rep ('close', 'end' or both), each to every handler attached for it
ConnectionLost(w, rep) ==
    /\ w \in W
    /\ up[w]
    /\ rep # {}
    /\ LET n == (IF "close" \in rep THEN handlers[w].close ELSE 0)
                + (IF "end" \in rep THEN handlers[w].end ELSE 0)
           st == RunHandlers([w |-> worker[w], t |-> timers[w]], n)
       IN  /\ Len(st.t) <= cfg.maxTimers
           /\ st.w.reconnectAttempts <= cfg.maxAttempts
           /\ failures[w] < cfg.maxAttempts
           /\ worker' = [worker EXCEPT ![w] = st.w]
           /\ timers' = [timers EXCEPT ![w] = st.t]
    /\ up' = [up EXCEPT ![w] = FALSE]
    /\ failures' = [failures EXCEPT ![w] = @ + 1]
    /\ ev' = [op |-> "lost", w |-> w, rep |-> rep]
    /\ UNCHANGED <<workers, created, selected, runs, handlers, stops, index,
                   cfg, inp, out, lives>>

\* what the setTimeout callback of retryConnect does
OnTimer(wk, rs) == IF ~wk.shuttingDown THEN connectAndListen(wk, rs) ELSE rs

\* the j-th pending timer of w fires
TimerFire(w, j) ==
    /\ w \in W
    /\ j \in 1..Len(timers[w])
    /\ Len(runs[w]) < cfg.maxRuns
    /\ timers' = [timers EXCEPT ![w] = RemoveAt(@, j)]
    /\ runs' = [runs EXCEPT ![w] = OnTimer(worker[w], @)]
    /\ ev' = [op |-> "timer", w |-> w, delay |-> timers[w][j]]
    /\ UNCHANGED <<workers, created, worker, up, selected, handlers, stops,
                   index, failures, cfg, inp, out, lives>>

Next ==
    \/ \E a \in cfg.accounts : startWorkerForAccount(a)
    \/ \E a \in cfg.accounts : stopWorkerForAccount(a)
    \/ \E j \in 1..cfg.maxStops, ok \in BOOLEAN : LogoutDone(j, ok)
    \/ \E w \in W, i \in 1..cfg.maxRuns, ok \in BOOLEAN : ConnectDone(w, i, ok)
    \/ \E w \in W, i \in 1..cfg.maxRuns, ok \in BOOLEAN : ListDone(w, i, ok)
    \/ \E w \in W, i \in 1..cfg.maxRuns, ok \in BOOLEAN : BackfillOpenDone(w, i, ok)
    \/ \E w \in W, i \in 1..cfg.maxRuns, ok \in BOOLEAN : SearchDone(w, i, ok)
    \/ \E w \in W, i \in 1..cfg.maxRuns, ok \in BOOLEAN : FetchNext(w, i, ok)
    \/ \E w \in W, i \in 1..cfg.maxRuns, ok \in BOOLEAN : DocExistsDone(w, i, ok)
    \/ \E w \in W, i \in 1..cfg.maxRuns, ok \in BOOLEAN : IndexEmailDone(w, i, ok)
    \/ \E w \in W, i \in 1..cfg.maxRuns, ok \in BOOLEAN : SubscribeOpenDone(w, i, ok)
    \/ \E w \in W, rep \in SUBSET {"close", "end"} : ConnectionLost(w, rep)
    \/ \E w \in W, j \in 1..cfg.maxTimers : TimerFire(w, j)

Spec == Init /\ [][Next]_vars

\* One worker; the event loop runs every timer that is due, so a pending
\* setTimeout callback is not postponed for ever.
InitLive ==
    /\ InitWorkers
    /\ cfg \in {x \in Scenarios : x.name \in {"backoff", "backfill"}}
    /\ inp = <<>>
    /\ out = <<>>

SpecLive ==
    /\ InitLive
    /\ [][Next]_vars
    /\ WF_vars(\E w \in W, j \in 1..cfg.maxTimers : TimerFire(w, j))

(***************************************************************************)
(* New-message notifications: the 'exists' listeners and                   *)
(* handleNewMessageInMailbox                                               *)
(***************************************************************************)
\* callbacks of 'exists' listeners that are under way at once
MaxLives == 2

\* One worker on the server with mail, whose connection holds and reports
\* new message counts while and after the mailboxes are enumerated.
Notifying ==
    [name |-> "notify", accounts |-> {1}, boxes |-> Boxes,
     maxWorkers |-> 1, maxStops |-> 0, maxAttempts |-> 0,
     maxCycles |-> 1, maxRuns |-> 1, maxTimers |-> 0, maxLives |-> MaxLives]

\* the callback of the 'exists' listener of mailbox m on the client of worker
\* w, awaiting client.mailboxOpen(m)
NewLive(w, m) == [w |-> w, m |-> m, pc |-> "open", seqNo |-> 0, doc |-> <<>>]

\* one callback per listener, in the order the listeners were attached
RECURSIVE Callbacks(_, _)
Callbacks(w, ms) ==
    IF ms = <<>> THEN <<>> ELSE <<NewLive(w, Head(ms))>> \o Callbacks(w, Tail(ms))

\* the client of w emits 'exists': every listener attached to it is called
\* and runs to its await of client.mailboxOpen(m)
Notify(w) ==
    /\ w \in W
    /\ up[w]
    /\ handlers[w].exists # <<>>
    /\ Len(lives) + Len(handlers[w].exists) <= cfg.maxLives
    /\ lives' = lives \o Callbacks(w, handlers[w].exists)
    /\ ev' = [op |-> "notify", w |-> w]
    /\ UNCHANGED <<workerVars, index, cfg, inp, out>>

\* the listener's await client.mailboxOpen(m) settles: resolved, m is the
\* selected mailbox and mb.exists its message count; a count of 0 returns,
\* else handleNewMessageInMailbox is called with the count as seqNo and
\* awaits the fetch; rejected, the catch ignores it
LiveOpenDone(c, ok) ==
    /\ c \in 1..Len(lives)
    /\ lives[c].pc = "open"
    /\ LET l == lives[c]
           total == Len(MailboxContent(l.m))
       IN  IF ok
           THEN /\ selected' = [selected EXCEPT ![l.w] = l.m]
                /\ lives' = IF total <= 0 THEN RemoveAt(lives, c)
                            ELSE [lives EXCEPT ![c].pc = "fetch", ![c].seqNo = total]
           ELSE /\ lives' = RemoveAt(lives, c)
                /\ UNCHANGED selected
    /\ ev' = NoEv
    /\ UNCHANGED <<workers, created, worker, up, runs, timers, handlers, stops,
                   failures, index, cfg, inp, out>>

\* handleNewMessageInMailbox: client.fetch(seqNo:seqNo) runs on the mailbox
\* the connection has selected and yields the message at seqNo, if there is
\* one (the loop body runs to the call of docExists); rejected, the catch logs
LiveFetchDone(c, ok) ==
    /\ c \in 1..Len(lives)
    /\ lives[c].pc = "fetch"
    /\ LET l == lives[c]
           content == MailboxContent(selected[l.w])
       IN  IF ok /\ l.seqNo <= Len(content)
           THEN \E now \in 1..MaxNow, rnd \in 1..MaxRnd :
                  LET raw == content[l.seqNo]
                      rawText == rawToText(raw)
                      messageId == extractMessageId(parseRawEmail(raw), rawText, now, rnd)
                  IN  /\ lives' = [lives EXCEPT ![c].pc = "exists",
                                      ![c].doc = BuildDoc(worker[l.w].account, l.m,
                                                          messageId, rawText)]
                      /\ ev' = NoEv
           ELSE /\ lives' = RemoveAt(lives, c)
                /\ ev' = IF ok THEN NoEv
                         ELSE [op |-> "liveError", w |-> l.w, at |-> "fetch"]
    /\ UNCHANGED <<workerVars, index, cfg, inp, out>>

\* handleNewMessageInMailbox: await docExists(...) settles; a message found
\* is logged as a duplicate and the function returns, else it goes on to
\* indexEmail
LiveExistsDone(c, ok) ==
    /\ c \in 1..Len(lives)
    /\ lives[c].pc = "exists"
    /\ \E now \in 1..MaxNow, rnd \in 1..MaxRnd :
         LET l == lives[c]
             exists == docExists(index, l.doc.accountId, l.doc.messageId, ok, now, rnd)
         IN  /\ lives' = IF SkipsMessage(exists) THEN RemoveAt(lives, c)
                         ELSE [lives EXCEPT ![c].pc = "index"]
             /\ ev' = IF ok THEN [op |-> "liveExists", w |-> l.w, found |-> exists]
                      ELSE [op |-> "liveError", w |-> l.w, at |-> "exists"]
    /\ UNCHANGED <<workerVars, index, cfg, inp, out>>

\* handleNewMessageInMailbox: await indexEmail(doc) settles; a rejection is
\* caught and logged; the fetch of one sequence number has no further message
LiveIndexDone(c, ok) ==
    /\ c \in 1..Len(lives)
    /\ lives[c].pc = "index"
    /\ \E now \in 1..MaxNow, rnd \in 1..MaxRnd :
         LET l == lives[c]
         IN  /\ index' = indexEmail(index, l.doc, ok, now, rnd)
             /\ lives' = RemoveAt(lives, c)
             /\ ev' = IF ok THEN [op |-> "liveIndexed", w |-> l.w, doc |-> l.doc]
                      ELSE [op |-> "liveError", w |-> l.w, at |-> "index"]
    /\ UNCHANGED <<workerVars, cfg, inp, out>>

InitNotify ==
    /\ InitWorkers
    /\ cfg = Notifying
    /\ inp = <<>>
    /\ out = <<>>

\* the worker is started and is not stopped; its connection holds
NextNotify ==
    \/ \E a \in cfg.accounts : startWorkerForAccount(a)
    \/ \E w \in W, i \in 1..cfg.maxRuns, ok \in BOOLEAN : ConnectDone(w, i, ok)
    \/ \E w \in W, i \in 1..cfg.maxRuns, ok \in BOOLEAN : ListDone(w, i, ok)
    \/ \E w \in W, i \in 1..cfg.maxRuns, ok \in BOOLEAN : BackfillOpenDone(w, i, ok)
    \/ \E w \in W, i \in 1..cfg.maxRuns, ok \in BOOLEAN : SearchDone(w, i, ok)
    \/ \E w \in W, i \in 1..cfg.maxRuns, ok \in BOOLEAN : FetchNext(w, i, ok)
    \/ \E w \in W, i \in 1..cfg.maxRuns, ok \in BOOLEAN : DocExistsDone(w, i, ok)
    \/ \E w \in W, i \in 1..cfg.maxRuns, ok \in BOOLEAN : IndexEmailDone(w, i, ok)
    \/ \E w \in W, i \in 1..cfg.maxRuns, ok \in BOOLEAN : SubscribeOpenDone(w, i, ok)
    \/ \E w \in W : Notify(w)
    \/ \E c \in 1..cfg.maxLives, ok \in BOOLEAN : LiveOpenDone(c, ok)
    \/ \E c \in 1..cfg.maxLives, ok \in BOOLEAN : LiveFetchDone(c, ok)
    \/ \E c \in 1..cfg.maxLives, ok \in BOOLEAN : LiveExistsDone(c, ok)
    \/ \E c \in 1..cfg.maxLives, ok \in BOOLEAN : LiveIndexDone(c, ok)

SpecNotify == InitNotify /\ [][NextNotify]_vars

(***************************************************************************)
(* Resolver and gateway on drawn inputs                                    *)
(***************************************************************************)
\* pieces a raw text is put together from
MaxPieces == 4

\* indexEmail calls made for the resolved identifier
MaxIndexCalls == 2

\* "Message-ID:", " ", CR LF, "<1@x>", "X:b"
Pieces == {HeaderName, <<32>>, <<13, 10>>, <<60, 49, 64, 120, 62>>, <<88, 58, 98>>}

RECURSIVE Concat(_)
Concat(ss) == IF ss = <<>> THEN <<>> ELSE Head(ss) \o Concat(Tail(ss))

RawTexts == {Concat(ps) : ps \in UNION {[1..n -> Pieces] : n \in 0..MaxPieces}}

\* parsed forms: none, one without messageId, one with "<2@x>"
ParsedForms == {NoParsed, [messageId |-> <<>>], [messageId |-> <<60, 50, 64, 120, 62>>]}

InitIngest ==
    /\ InitWorkers
    /\ cfg \in {x \in Scenarios : x.name = "backfill"}
    /\ inp \in [parsed : ParsedForms, rawText : RawTexts, accountId : {1}]
    /\ out = [resolved |-> FALSE, messageId |-> <<>>, calls |-> 0, writes |-> 0,
              last |-> <<>>]

\* extractMessageId(parsed, rawText) is called on the input
Resolve ==
    /\ ~out.resolved
    /\ \E now \in 1..MaxNow, rnd \in 1..MaxRnd :
         out' = [out EXCEPT !.resolved = TRUE,
                    !.messageId = extractMessageId(inp.parsed, inp.rawText, now, rnd)]
    /\ UNCHANGED <<workerVars, index, ev, cfg, inp, lives>>

\* indexEmail is called with a document for the resolved identifier
IndexCall(folder, ok) ==
    /\ out.resolved
    /\ out.calls < MaxIndexCalls
    /\ \E now \in 1..MaxNow, rnd \in 1..MaxRnd :
         LET doc == BuildDoc(inp.accountId, folder, out.messageId, inp.rawText)
         IN  /\ index' = indexEmail(index, doc, ok, now, rnd)
             /\ out' = [out EXCEPT !.calls = @ + 1,
                           !.writes = IF ok THEN @ + 1 ELSE @,
                           !.last = IF ok THEN doc ELSE @]
    /\ UNCHANGED <<workerVars, ev, cfg, inp, lives>>

NextIngest ==
    \/ Resolve
    \/ \E folder \in {"INBOX", "Sent"}, ok \in BOOLEAN : IndexCall(folder, ok)

SpecIngest == InitIngest /\ [][NextIngest]_vars

(***************************************************************************)
(* Properties                                                              *)
(***************************************************************************)
\* C1: the registry holds at most one worker per account id, and a start call
\* for an account id that is registered is a no-op: no Worker is created, no
\* connection attempt is started and every worker's state is unchanged.
C1Theorem ==
    /\ [](\A a \in cfg.accounts : Cardinality({e \in workers : e[1] = a}) <= 1)
    /\ [][(ev'.op = "start" /\ MapHas(workers, ev'.account))
            => (ev'.result = "already" /\ UNCHANGED workerVars)]_vars

\* a start call was a no-op on an account whose worker is connected
C1Witness ==
    /\ ev.op = "start"
    /\ ev.result = "already"
    /\ MapHas(workers, ev.account)
    /\ worker[MapGet(workers, ev.account)].connected
    /\ created = 2

\* C2 (as claimed): every retry scheduled for a worker has delay
\* min(30000, 1000 * 2^N), N the number of connection failures (rejected
\* connects, losses of the established connection) since the worker's last
\* successful connect; so the first one after a successful connect has 2000.
C2Claim ==
    [][\A w \in W :
          \A j \in (Len(timers[w]) + 1)..Len(timers'[w]) :
              timers'[w][j] = Min(30000, 1000 * Pow2(failures'[w]))]_vars

\* number of invocations of connectAndListen that await client.connect()
Connecting(rs) == Cardinality({i \in 1..Len(rs) : rs[i].pc = "connect"})

\* C3: once stopWorkerForAccount has marked a worker shutting-down, no step
\* adds a retry timer for it or starts a connection attempt for it, whatever
\* the worker was doing; a pending timer that fires starts none.
C3Theorem ==
    [][\A w \in W :
          worker[w].shuttingDown =>
              /\ worker'[w].shuttingDown
              /\ Len(timers'[w]) <= Len(timers[w])
              /\ Connecting(runs'[w]) <= Connecting(runs[w])]_vars

\* a timer that was pending fired on a worker marked shutting-down
C3Witness ==
    /\ ev.op = "timer"
    /\ worker[ev.w].shuttingDown
    /\ Connecting(runs[ev.w]) = 0

\* C4: stopWorkerForAccount on a registered worker does not raise, and when
\* it returns the registry has no entry for the account id, whether logout
\* resolved or rejected.
C4Theorem ==
    ev.op = "stopDone" => (ev.result = "returned" /\ ~MapHas(workers, ev.account))

\* a stop returned after its logout was rejected
C4Witness ==
    /\ ev.op = "stopDone"
    /\ ev.result = "returned"
    /\ ~ev.logout

\* C5: stopWorkerForAccount for an account id without a registered worker
\* returns without effect: registry, every worker's state and the pending
\* logouts are unchanged.
C5Theorem ==
    [][(ev'.op = "stop" /\ ~MapHas(workers, ev'.account))
         => (ev'.result = "absent" /\ UNCHANGED workerVars)]_vars

\* a stop for an unregistered id returned while another worker was at work
C5Witness ==
    /\ ev.op = "stop"
    /\ ev.result = "absent"
    /\ \E w \in W : worker[w].account # ev.account /\ Len(runs[w]) > 0

\* the document of account / message id is stored under its document id
Stored(doc) ==
    /\ doc.messageId # <<>>
    /\ docIdFor(doc.accountId, doc.messageId, 1, 1) \in DOMAIN index

\* the step settles docExists of invocation i of worker w
SettlesExists(w, i) ==
    /\ i \in 1..Len(runs[w])
    /\ runs[w][i].pc = "exists"
    /\ ev'.op \in {"exists", "error"}
    /\ ev'.w = w
    /\ Len(runs'[w]) = Len(runs[w])
    /\ runs'[w][i] # runs[w][i]

\* the step settles indexEmail of invocation i of worker w
SettlesIndex(w, i) ==
    /\ i \in 1..Len(runs[w])
    /\ runs[w][i].pc = "index"
    /\ ev'.op \in {"indexed", "error"}
    /\ ev'.w = w
    /\ Len(runs'[w]) = Len(runs[w])
    /\ runs'[w][i] # runs[w][i]

\* C6 (as claimed): when the backfill comes to a message whose document is
\* stored, it issues no upsert for it and the index stays as it is.
C6Claim ==
    [][\A w \in W : \A i \in 1..cfg.maxRuns :
          (SettlesExists(w, i) /\ Stored(runs[w][i].doc))
              => (runs'[w][i].pc = "fetch" /\ index' = index)]_vars

\* C6 (amended): when the backfill comes to a message whose document is
\* stored and the existence check answers, no upsert is issued and the index
\* stays as it is; when the check fails the upsert that follows writes under
\* the same id, so the index gains no second document.
C6Theorem ==
    [][\A w \in W : \A i \in 1..cfg.maxRuns :
          /\ (SettlesExists(w, i) /\ Stored(runs[w][i].doc) /\ ev'.op = "exists")
                => (runs'[w][i].pc = "fetch" /\ index' = index)
          /\ (SettlesIndex(w, i) /\ Stored(runs[w][i].doc))
                => DOMAIN index' = DOMAIN index]_vars

\* the backfill found the document of a message stored and skipped it
C6Witness ==
    /\ ev.op = "exists"
    /\ ev.found
    /\ \E w \in W : \E i \in 1..Len(runs[w]) : runs[w][i].pc = "fetch" /\ runs[w][i].k = 2

\* C7 (as claimed): after two writes of a document with the same accountId
\* and messageId, the messageId being one extractMessageId returned, exactly
\* one document with that pair is stored and it equals the latest write.
C7Claim ==
    (out # <<>> /\ out.resolved /\ out.writes >= 2) =>
        LET S == {id \in DOMAIN index :
                     /\ index[id].accountId = inp.accountId
                     /\ index[id].messageId = out.messageId}
        IN  /\ Cardinality(S) = 1
            /\ \A id \in S : index[id] = out.last

\* lines of a text: split at CR and LF
RECURSIVE Lines(_, _)
Lines(t, acc) ==
    IF t = <<>> THEN <<acc>>
    ELSE IF IsLineTerminator(Head(t)) THEN <<acc>> \o Lines(Tail(t), <<>>)
    ELSE Lines(Tail(t), Append(acc, Head(t)))

\* a line that is a Message-ID header line
IsHeaderLine(l) == LiteralAt(TrimStart(l), 1, HeaderName)

\* what follows "Message-ID:" on a header line
Remainder(l) == SubSeq(TrimStart(l), Len(HeaderName) + 1, Len(TrimStart(l)))

IsGenerated(id) ==
    \E now \in 1..MaxNow, rnd \in 1..MaxRnd : id = GeneratedId(now, rnd)

\* C8 (as claimed): extractMessageId returns a non-empty string: the parsed
\* identifier when there is one, else the trimmed remainder of the first
\* Message-ID header line of the raw text, else a <generated-...> identifier
\* (read in its favour: a header line with a blank remainder gives none).
C8Claim ==
    (out # <<>> /\ out.resolved) =>
        LET ls == Lines(inp.rawText, <<>>)
            H == {n \in 1..Len(ls) : IsHeaderLine(ls[n])}
        IN  /\ out.messageId # <<>>
            /\ IF HasMessageId(inp.parsed) THEN out.messageId = inp.parsed.messageId
               ELSE IF H # {} /\ Trim(Remainder(ls[SetMin(H)])) # <<>>
                    THEN out.messageId = Trim(Remainder(ls[SetMin(H)]))
               ELSE IsGenerated(out.messageId)

\* the connection of worker w, which had finished its enumeration and had
\* its close / end handlers attached (Listening), was just reported lost
LostInListening(w) ==
    /\ w \in W
    /\ ev.op = "lost"
    /\ ev.w = w
    /\ Len(runs[w]) = 0
    /\ handlers[w].close > 0

\* a timer of w just fired and started a connection attempt
ConnectStarted(w) ==
    /\ w \in W
    /\ ev.op = "timer"
    /\ ev.w = w
    /\ Connecting(runs[w]) > 0

\* the step reports the loss of w's connection in Listening: a worker not
\* shutting down gets retries scheduled with the backoff delays that follow
\* its counter, a worker shutting down gets none
C9Schedules ==
    \A w \in W :
        (ev'.op = "lost" /\ ev'.w = w /\ Len(runs[w]) = 0 /\ handlers[w].close > 0) =>
            IF worker[w].shuttingDown
            THEN timers'[w] = timers[w]
            ELSE /\ Len(timers'[w]) > Len(timers[w])
                 /\ \A j \in (Len(timers[w]) + 1)..Len(timers'[w]) :
                       timers'[w][j] = Min(30000, 1000 *
                           Pow2(worker[w].reconnectAttempts + j - Len(timers[w])))

\* C9 (as claimed): when the connection of a worker in Listening is reported
\* closed or ended, a worker that is not shutting down gets a retry scheduled
\* per the backoff formula and a new connection attempt eventually starts; a
\* worker that is shutting down gets nothing scheduled.
C9Claim ==
    /\ [][C9Schedules]_vars
    /\ \A w \in 1..MaxWorkers :
          (LostInListening(w) /\ ~worker[w].shuttingDown) ~> ConnectStarted(w)

\* C9 (amended): as claimed, except that the connection attempt starts only
\* if stopWorkerForAccount does not mark the worker shutting-down before the
\* timer fires: eventually an attempt starts or the worker is shutting down.
C9Theorem ==
    /\ [][C9Schedules]_vars
    /\ \A w \in 1..MaxWorkers :
          (LostInListening(w) /\ ~worker[w].shuttingDown)
              ~> (ConnectStarted(w) \/ (w \in W /\ worker[w].shuttingDown))

\* the connection of a listening worker was lost and its retry is pending
C9Witness ==
    \E w \in W :
        /\ LostInListening(w)
        /\ ~worker[w].shuttingDown
        /\ timers[w] = <<2000>>

\* C10 (as claimed): every failure of connect, of listing the mailboxes, of
\* opening a mailbox, of search or of fetch on a worker that is not shutting
\* down is logged and followed by a scheduled backoff retry.
C10Claim ==
    [][\A w \in W :
          (/\ ev'.op = "error"
           /\ ev'.w = w
           /\ ev'.at \in {"connect", "list", "open", "subscribe", "search", "fetch"}
           /\ ~worker[w].shuttingDown)
              => Len(timers'[w]) > Len(timers[w])]_vars

\* C11 (as claimed): when the backfill of a mailbox failed at the mailbox
\* level (read-only open, search or fetch rejected), the worker goes on to
\* the next mailbox of the sequence, or ends the enumeration after the last,
\* without a listener having been subscribed for the failed mailbox.
C11Claim ==
    [][\A w \in W : \A i \in 1..Len(runs[w]) :
          (/\ runs[w][i].pc = "subOpen"
           /\ runs[w][i].failed
           /\ ev'.op \in {"none", "error"}
           /\ runs'[w] # runs[w])
              => /\ handlers'[w].exists = handlers[w].exists
                 /\ \/ Len(runs'[w]) < Len(runs[w])
                    \/ /\ runs'[w][i].pc = "bfOpen"
                       /\ runs'[w][i].mi = runs[w][i].mi + 1]_vars

\* the invocation is in the message loop of fetchLast30DaysForMailbox
InMessageLoop(r) == r.pc \in {"fetch", "exists", "index"}

\* C12: a rejected upsert of one message does not end the backfill of the
\* mailbox: nothing is written, the message is dropped and the loop stands at
\* the next message of the fetch; the loop never steps back to a message it
\* has passed, so the failed message is not tried again, and every message
\* the fetch yields goes to the existence check.
C12Theorem ==
    [][\A w \in W : \A i \in 1..cfg.maxRuns :
          /\ (SettlesIndex(w, i) /\ ev'.op = "error")
                => /\ index' = index
                   /\ runs'[w][i] = [runs[w][i] EXCEPT !.pc = "fetch",
                                        !.k = @ + 1, !.doc = <<>>]
          /\ (/\ i \in 1..Len(runs[w])
              /\ Len(runs'[w]) = Len(runs[w])
              /\ InMessageLoop(runs[w][i])
              /\ InMessageLoop(runs'[w][i]))
                => /\ runs'[w][i].mi = runs[w][i].mi
                   /\ runs'[w][i].k >= runs[w][i].k
          /\ (/\ i \in 1..Len(runs[w])
              /\ Len(runs'[w]) = Len(runs[w])
              /\ runs[w][i].pc = "fetch"
              /\ runs'[w][i].pc \in {"exists", "index"})
                => /\ runs'[w][i].pc = "exists"
                   /\ runs'[w][i].k = runs[w][i].k
                   /\ runs'[w][i].doc.raw = MailboxContent(selected[w])[runs[w][i].k]]_vars

\* the second message of INBOX was indexed after the upsert of the first
\* one had failed
C12Witness ==
    /\ ev.op = "indexed"
    /\ ev.doc.folder = "INBOX"
    /\ ev.doc.raw = MsgB
    /\ \A id \in DOMAIN index : index[id].raw # MsgA

\* C13: when esClient.exists rejects, docExists answers false and does not
\* raise, and the caller goes on to indexEmail with the document it built:
\* the invocation of the backfill and the callback of a notification alike
\* stand at the upsert after the step, none has skipped its message.
C13Theorem ==
    [][/\ \A w \in W :
             (ev'.op = "error" /\ ev'.at = "exists" /\ ev'.w = w)
                => \E i \in 1..Len(runs[w]) :
                      /\ runs[w][i].pc = "exists"
                      /\ runs' = [runs EXCEPT ![w][i].pc = "index"]
       /\ (ev'.op = "liveError" /\ ev'.at = "exists")
             => \E c \in 1..Len(lives) :
                   /\ lives[c].pc = "exists"
                   /\ lives[c].w = ev'.w
                   /\ lives' = [lives EXCEPT ![c].pc = "index"]]_vars

\* the existence check of a notification's message failed while the document
\* of the message is stored: the callback stands at the upsert
C13Witness ==
    /\ ev.op = "liveError"
    /\ ev.at = "exists"
    /\ \E c \in 1..Len(lives) : lives[c].pc = "index" /\ Stored(lives[c].doc)

\* the step is a successful connect of worker w
ConnectSucceeds(w) ==
    /\ Len(runs'[w]) = Len(runs[w])
    /\ \E i \in 1..Len(runs[w]) : runs[w][i].pc = "connect" /\ runs'[w][i].pc = "list"

\* the step is a connection failure of worker w, not shutting down: a
\* rejected connect, or the loss of the connection it was listening on
ConnectionFails(w) ==
    /\ ~worker[w].shuttingDown
    /\ ev'.w = w
    /\ \/ ev'.op = "error" /\ ev'.at = "connect"
       \/ ev'.op = "lost" /\ handlers[w].close > 0 /\ handlers[w].end > 0

\* C14 (as claimed): reconnectAttempts is set to zero by a successful connect
\* and by nothing else; any other step leaves it or increments it, and a
\* connection failure or loss increments it by exactly one.
C14Claim ==
    [][\A w \in W :
          IF ConnectSucceeds(w) THEN worker'[w].reconnectAttempts = 0
          ELSE /\ worker'[w].reconnectAttempts >= worker[w].reconnectAttempts
               /\ worker'[w].reconnectAttempts <= worker[w].reconnectAttempts + 1
               /\ ev'.op \in {"error", "lost"} /\ ConnectionFails(w)
                     => worker'[w].reconnectAttempts = worker[w].reconnectAttempts + 1]_vars

\* the pairs <<parent, child>> of named mailboxes in the listing under box
RECURSIVE Edges(_)
Edges(box) ==
    UNION { (IF box.name # "" /\ box.children[n].name # ""
             THEN {<<box.name, box.children[n].name>>} ELSE {})
            \cup Edges(box.children[n]) : n \in 1..Len(box.children) }

\* the named mailboxes of the listing under box
RECURSIVE Names(_)
Names(box) ==
    (IF box.name # "" THEN {box.name} ELSE {})
    \cup UNION {Names(box.children[n]) : n \in 1..Len(box.children)}

\* the places of mailbox m in the sequence the worker goes through
Places(m) == {n \in 1..Len(mailboxNames) : mailboxNames[n] = m}

\* every mailbox of the listing is in the sequence once, a parent before its
\* children
PreOrder ==
    /\ \A m \in Names(cfg.boxes) : Cardinality(Places(m)) = 1
    /\ \A n \in 1..Len(mailboxNames) : mailboxNames[n] \in Names(cfg.boxes)
    /\ \A e \in Edges(cfg.boxes) :
          \A p \in Places(e[1]) : \A c \in Places(e[2]) : p < c

\* the enumeration of one invocation goes mailbox by mailbox: the backfill of
\* mailbox mi, then the open that subscribes mi's listener, then mailbox
\* mi + 1; a listener is registered only by that open, for that mailbox; the
\* invocation ends only after the last mailbox
Sequential(w) ==
    /\ Len(runs'[w]) = Len(runs[w]) =>
          \A i \in 1..Len(runs[w]) :
             LET r == runs[w][i]
                 s == runs'[w][i]
             IN  r # s =>
                   /\ s.pc = "bfOpen" =>
                         \/ r.pc = "list" /\ s.mi = 1
                         \/ r.pc = "subOpen" /\ s.mi = r.mi + 1
                   /\ s.pc \in {"search", "fetch", "exists", "index", "subOpen"}
                         => /\ s.mi = r.mi
                            /\ r.pc \in {"bfOpen", "search", "fetch", "exists", "index"}
                   /\ handlers'[w].exists # handlers[w].exists =>
                         /\ r.pc = "subOpen"
                         /\ handlers'[w].exists =
                               Append(handlers[w].exists, mailboxNames[r.mi])
    /\ Len(runs'[w]) = Len(runs[w]) - 1 =>
          \/ handlers'[w].close = handlers[w].close
          \/ \E i \in 1..Len(runs[w]) :
                /\ runs'[w] = RemoveAt(runs[w], i)
                /\ \/ runs[w][i].pc = "list"
                   \/ runs[w][i].pc = "subOpen" /\ runs[w][i].mi = Len(mailboxNames)
    /\ (handlers'[w].exists # handlers[w].exists /\ Len(runs'[w]) = Len(runs[w]) - 1)
          => \E i \in 1..Len(runs[w]) :
                /\ runs[w][i].pc = "subOpen"
                /\ handlers'[w].exists =
                      Append(handlers[w].exists, mailboxNames[runs[w][i].mi])

\* an invocation of w is between its successful connect and its return
Enumerating(w) == \E i \in 1..Len(runs[w]) : runs[w][i].pc # "connect"

\* a loss of the connection reported while w is enumerating gets no reaction
ListensLast(w) ==
    (ev'.op = "lost" /\ ev'.w = w /\ Enumerating(w))
        => /\ worker'[w] = worker[w]
           /\ timers'[w] = timers[w]

\* C15 (as claimed): in every connect cycle the mailboxes of the listing are
\* gone through once each in pre-order, backfill, then listener, then the
\* next mailbox, and the worker reacts to its connection being reported
\* closed or ended only after the last mailbox.
C15Claim ==
    /\ []PreOrder
    /\ [][\A w \in W : Sequential(w) /\ ListensLast(w)]_vars

\* C16 (as claimed): no fetch for mailbox m runs while the connection has
\* another mailbox selected, in the backfill and in the callbacks of the
\* listeners alike: the document built from a fetched message carries as
\* folder the mailbox that is selected when the fetch yields the message.
C16Claim ==
    [][/\ \A w \in W : \A i \in 1..Len(runs[w]) :
             (/\ Len(runs'[w]) = Len(runs[w])
              /\ runs[w][i].pc = "fetch"
              /\ runs'[w][i].pc = "exists")
                => runs'[w][i].doc.folder = selected[w]
       /\ \A c \in 1..Len(lives) :
             (/\ Len(lives') = Len(lives)
              /\ lives[c].pc = "fetch"
              /\ lives'[c].pc = "exists")
                => lives'[c].doc.folder = selected[lives[c].w]]_vars

\* the step takes an invocation of w on to a mailbox it had not begun: it
\* calls fetchLast30DaysForMailbox for the first or for the next mailbox
StartsMailbox(w) ==
    /\ Len(runs'[w]) = Len(runs[w])
    /\ \E i \in 1..Len(runs[w]) :
          /\ runs'[w][i].pc = "bfOpen"
          /\ runs'[w][i] # runs[w][i]

\* C17 (as claimed): once stopWorkerForAccount has marked a worker
\* shutting-down, the call in flight may settle, but the worker does not go
\* on to a mailbox it had not begun, so it opens and subscribes none of the
\* remaining mailboxes.
C17Claim ==
    [][\A w \in W : worker[w].shuttingDown => ~StartsMailbox(w)]_vars

\* C18 (as claimed): a worker has at most one retry timer pending and at
\* most one invocation of connectAndListen active at any time.
C18Claim ==
    \A w \in W :
        /\ Len(timers[w]) <= 1
        /\ Len(runs[w]) <= 1

\* worker object w is live: created and not marked shutting-down
IsLive(w) == ~worker[w].shuttingDown

\* C19 (as claimed): every live worker object is the one registered under
\* its account id, so no live worker is outside the registry and no account
\* id has two live workers.
C19Claim ==
    /\ \A w \in W : IsLive(w) => <<worker[w].account, w>> \in workers
    /\ \A v, w \in W :
          (IsLive(v) /\ IsLive(w) /\ worker[v].account = worker[w].account) => v = w

\* mailbox m has at most one 'exists' listener among ls
OneListener(ls, m) == Cardinality({n \in 1..Len(ls) : ls[n] = m}) <= 1

\* C20 (as claimed): after any number of connect cycles the client of a
\* worker has at most one 'exists' listener per mailbox and at most one
\* handler each for 'close' and 'end'.
C20Claim ==
    \A w \in W :
        /\ handlers[w].close <= 1
        /\ handlers[w].end <= 1
        /\ \A n \in 1..Len(handlers[w].exists) :
              OneListener(handlers[w].exists, handlers[w].exists[n])

\* the connection of worker w, established by a successful connect, was just
\* reported closed or ended, at whatever point of the cycle
LostAnywhere(w) ==
    /\ w \in W
    /\ ev.op = "lost"
    /\ ev.w = w

\* C21 (as claimed): when the connection of a worker that is not shutting
\* down closes or ends at any moment after a successful connect, also while
\* the worker is enumerating or backfilling, its connected flag becomes false
\* with that step, and a reconnect attempt is eventually made (unless the
\* worker is stopped first).
C21Claim ==
    /\ [][\A w \in W :
             (ev'.op = "lost" /\ ev'.w = w /\ ~worker[w].shuttingDown)
                => ~worker'[w].connected]_vars
    /\ \A w \in 1..MaxWorkers :
          (LostAnywhere(w) /\ ~worker[w].shuttingDown)
              ~> (ConnectStarted(w) \/ (w \in W /\ worker[w].shuttingDown))

====
